---- MODULE Spec2Model ----
(***************************************************************************)
(* Model of dathost/server/awaiting/__init__.py: the ServerAwaiting handle *)
(* and the requests its coroutines and async generators hand to the shared *)
(* dispatcher (self.context).  One caller drives the handles; a coroutine  *)
(* is suspended at every "await" and every "yield", so each handler is one *)
(* action per stretch of code between two suspension points.               *)
(***************************************************************************)
EXTENDS Integers, Sequences, FiniteSets, TLC

VARIABLES
    handles,   \* the ServerAwaiting objects the caller holds: [context, server_id]
    ctor,      \* history: the arguments each of those objects was constructed with
    pc,        \* position of the invocation: idle, awaiting, suspended, returned, raised
    frame,     \* the invocation's bound parameters: op, self (index in handles), ...
    log,       \* the dispatcher calls made by the invocation in frame, in order
    data,      \* the handler's local "data", once the awaited call has returned
    result,    \* what the coroutine returned
    error,     \* the exception that left the coroutine
    yielded    \* what the async generator has yielded so far

vars == <<handles, ctor, pc, frame, log, data, result, error, yielded>>

(* ------------------------------ bounds -------------------------------- *)

MaxHandles == 2       \* handles the caller keeps (the first one plus duplicates)
MaxItems == 2         \* longest array a listing endpoint answers with
CallerTimeout == 5    \* the timeout a caller passes when it passes one

(* ------------------------- program constants -------------------------- *)

MinLines == 1
MaxLines == 100000
DefaultLines == 1000
DeleteTimeout == 60
DuplicateTimeout == 60
StopTimeout == 60
StartTimeout == 60
ResetTimeout == 60
FilesTimeout == 30
BackupsTimeout == 30

(* --------------------------- input domains ---------------------------- *)

ServerIds == {"s1", "s2"}
Contexts == {"ctxA", "ctxB"}
None == "None"                       \* Python's None
NoError == "none"
DispatcherErrors == {"RemoteError", "TimeoutError"}

\* An optional argument is <<>> when the caller leaves it out, <<v>> otherwise.
TimeoutArgs == {<<>>, <<CallerTimeout>>}
LinesArgs == {<<>>} \cup {<<n>> : n \in {MinLines - 2, MinLines - 1, MinLines,
                                        MaxLines, MaxLines + 1}}
FlagArgs == {<<>>, <<TRUE>>}
\* files(hide_default, path, file_sizes): all left out, or all given.
FilesArgs == { [hide_default |-> <<>>, path |-> <<>>, file_sizes |-> <<>>],
               [hide_default |-> <<TRUE>>, path |-> <<"cfg">>, file_sizes |-> <<TRUE>>] }
ConsoleLines == {"status", "quit"}
Payloads == { [name |-> "srv"],
              [name |-> "srv", server_id |-> "s1"],
              [server_id |-> "s2"] }

FileItems == { [path |-> "a.cfg"], [path |-> "b.cfg"] }
BackupItems == { [name |-> "bk1"], [name |-> "bk2"] }
ConsoleBodies == { [lines |-> <<>>], [lines |-> <<"l1", "l2">>] }
ServerBodies == { [id |-> s] : s \in ServerIds }
MetricsBodies == { [players |-> 0] }

RECURSIVE SeqsUpTo(_, _)
SeqsUpTo(S, n) ==
    IF n = 0 THEN {<<>>}
    ELSE LET shorter == SeqsUpTo(S, n - 1)
         IN  shorter \cup {Append(s, x) : s \in {t \in shorter : Len(t) = n - 1}, x \in S}

(* ------------------------------ helpers ------------------------------- *)

\* A parameter with a default value: the default when the caller leaves it out.
Arg(a, default) == IF a = <<>> THEN default ELSE a[1]

\* SERVER.<route>.format(self.server_id)
Url(route, server_id) == <<route, server_id>>

\* self.context._<verb>(**kwargs): kwargs holds exactly the arguments passed.
Request(self, verb, kwargs) ==
    [context |-> self.context, verb |-> verb, kwargs |-> kwargs, outcome |-> "pending"]

ServerAwaiting(context, server_id) == [context |-> context, server_id |-> server_id]

ServerModel(d) == [model |-> "ServerModel", data |-> d]
FileModel(d) == [model |-> "FileModel", data |-> d]
BackupModel(d) == [model |-> "BackupModel", data |-> d]
MetricsModel(d) == [model |-> "MetricsModel", data |-> d]

file_swapped(self, pathway) ==
    [handle |-> "AwaitingFile", context |-> self.context,
     server_id |-> pathway, key |-> self.server_id]
file(self, pathway) ==
    [handle |-> "AwaitingFile", context |-> self.context,
     server_id |-> self.server_id, key |-> pathway]

backup(self, backup_name) ==
    [handle |-> "AwaitingBackup", context |-> self.context,
     server_id |-> self.server_id, key |-> backup_name]

\* {**settings.playload, "server_id": self.server_id}: the later key wins.
UpdateDataPayloadWins(payload, server_id) ==
    [k \in DOMAIN payload \cup {"server_id"} |->
        IF k \in DOMAIN payload THEN payload[k] ELSE server_id]
UpdateData(payload, server_id) ==
    [k \in DOMAIN payload \cup {"server_id"} |->
        IF k = "server_id" THEN server_id ELSE payload[k]]

\* if lines < 1 or lines > 100000: raise InvalidConsoleLine()
InvalidLinesOffByOne(lines) == lines < MinLines - 1 \/ lines > MaxLines + 1
InvalidLines(lines) == lines < MinLines \/ lines > MaxLines

ConsoleParamsDefault(lines) == [max_lines |-> DefaultLines]
ConsoleParams(lines) == [max_lines |-> lines]

NoValue == [kind |-> "none"]
Value(v) == [kind |-> "value", value |-> v]
NoData == [kind |-> "none"]

Self == handles[frame.self]
Last == log[Len(log)]
Answered(outcome) == [log EXCEPT ![Len(log)].outcome = outcome]

(* ------------------------------- Init --------------------------------- *)

Init ==
    /\ \E c \in Contexts, s \in ServerIds :
          /\ handles = <<ServerAwaiting(c, s)>>
          /\ ctor = <<ServerAwaiting(c, s)>>
    /\ pc = "idle"
    /\ frame = [op |-> "none", self |-> 1]
    /\ log = <<>>
    /\ data = NoData
    /\ result = NoValue
    /\ error = NoError
    /\ yielded = <<>>

(* ------------------------ calling a coroutine ------------------------- *)

\* The caller invokes a method once the previous invocation has returned, raised,
\* or (a generator) is suspended at a yield and is dropped.
CallerReady == pc \in {"idle", "returned", "raised", "suspended"}

Begin(f) ==
    /\ CallerReady
    /\ f.self \in 1..Len(handles)
    /\ frame' = f
    /\ data' = NoData
    /\ result' = NoValue
    /\ yielded' = <<>>
    /\ UNCHANGED <<handles, ctor>>

\* The coroutine runs to its first await: one request is handed to the dispatcher.
Await(req) ==
    /\ log' = <<req>>
    /\ pc' = "awaiting"
    /\ error' = NoError

\* The coroutine raises before its first await: nothing reaches the dispatcher.
Raise(exception) ==
    /\ log' = <<>>
    /\ pc' = "raised"
    /\ error' = exception

(* ------------------------------ handlers ------------------------------ *)

delete(h, timeout) ==
    /\ Begin([op |-> "delete", self |-> h, timeout |-> Arg(timeout, DeleteTimeout)])
    /\ Await(Request(handles[h], "DELETE",
                     [url |-> Url("delete", handles[h].server_id),
                      timeout |-> Arg(timeout, DeleteTimeout)]))

get_cached(h) ==
    /\ Begin([op |-> "get", self |-> h])
    /\ IF frame.op = "get" /\ pc = "returned"
       THEN /\ log' = <<>>
            /\ pc' = "returned"
            /\ error' = NoError
       ELSE Await(Request(handles[h], "GET", [url |-> Url("get", handles[h].server_id)]))
get(h) ==
    /\ Begin([op |-> "get", self |-> h])
    /\ Await(Request(handles[h], "GET", [url |-> Url("get", handles[h].server_id)]))

update(h, settings) ==
    /\ Begin([op |-> "update", self |-> h, settings |-> settings])
    /\ Await(Request(handles[h], "PUT",
                     [url |-> Url("update", handles[h].server_id),
                      data |-> UpdateData(settings, handles[h].server_id)]))

console_send(h, line) ==
    /\ Begin([op |-> "console_send", self |-> h, line |-> line])
    /\ Await(Request(handles[h], "POST",
                     [url |-> Url("console", handles[h].server_id),
                      data |-> [line |-> line]]))

console_retrive(h, lines) ==
    /\ Begin([op |-> "console_retrive", self |-> h, lines |-> Arg(lines, DefaultLines)])
    /\ IF InvalidLines(Arg(lines, DefaultLines))
       THEN Raise("InvalidConsoleLine")
       ELSE Await(Request(handles[h], "GET",
                          [url |-> Url("console", handles[h].server_id),
                           params |-> ConsoleParams(Arg(lines, DefaultLines))]))

sync(h) ==
    /\ Begin([op |-> "sync", self |-> h])
    /\ Await(Request(handles[h], "POST", [url |-> Url("sync", handles[h].server_id)]))

\* duplicate up to its first await: self.sync() when sync is set, the duplicate
\* POST otherwise.  self.sync() passes no timeout to the dispatcher.
duplicate_never_sync(h, do_sync, timeout) ==
    /\ Begin([op |-> "duplicate", self |-> h, sync |-> Arg(do_sync, FALSE),
              timeout |-> Arg(timeout, DuplicateTimeout)])
    /\ Await(Request(handles[h], "POST",
                     [url |-> Url("duplicate", handles[h].server_id),
                      read_json |-> TRUE,
                      timeout |-> Arg(timeout, DuplicateTimeout)]))
duplicate_always_sync(h, do_sync, timeout) ==
    /\ Begin([op |-> "duplicate", self |-> h, sync |-> Arg(do_sync, FALSE),
              timeout |-> Arg(timeout, DuplicateTimeout)])
    /\ Await(Request(handles[h], "POST", [url |-> Url("sync", handles[h].server_id)]))
duplicate(h, do_sync, timeout) ==
    /\ Begin([op |-> "duplicate", self |-> h, sync |-> Arg(do_sync, FALSE),
              timeout |-> Arg(timeout, DuplicateTimeout)])
    /\ IF Arg(do_sync, FALSE)
       THEN Await(Request(handles[h], "POST", [url |-> Url("sync", handles[h].server_id)]))
       ELSE Await(Request(handles[h], "POST",
                          [url |-> Url("duplicate", handles[h].server_id),
                           read_json |-> TRUE,
                           timeout |-> Arg(timeout, DuplicateTimeout)]))

ftp_reset(h) ==
    /\ Begin([op |-> "ftp_reset", self |-> h])
    /\ Await(Request(handles[h], "POST", [url |-> Url("ftp", handles[h].server_id)]))

stop_no_timeout(h, timeout) ==
    /\ Begin([op |-> "stop", self |-> h, timeout |-> Arg(timeout, StopTimeout)])
    /\ Await(Request(handles[h], "POST", [url |-> Url("stop", handles[h].server_id)]))
stop(h, timeout) ==
    /\ Begin([op |-> "stop", self |-> h, timeout |-> Arg(timeout, StopTimeout)])
    /\ Await(Request(handles[h], "POST",
                     [url |-> Url("stop", handles[h].server_id),
                      timeout |-> Arg(timeout, StopTimeout)]))

start(h, timeout) ==
    /\ Begin([op |-> "start", self |-> h, timeout |-> Arg(timeout, StartTimeout)])
    /\ Await(Request(handles[h], "POST",
                     [url |-> Url("start", handles[h].server_id),
                      timeout |-> Arg(timeout, StartTimeout)]))

reset(h, timeout) ==
    /\ Begin([op |-> "reset", self |-> h, timeout |-> Arg(timeout, ResetTimeout)])
    /\ Await(Request(handles[h], "POST",
                     [url |-> Url("reset", handles[h].server_id),
                      timeout |-> Arg(timeout, ResetTimeout)]))

\* The first __anext__ of the generator files(...) returns: up to the awaited GET.
files(h, hide_default, path, file_sizes, timeout) ==
    /\ Begin([op |-> "files", self |-> h, hide_default |-> Arg(hide_default, FALSE),
              path |-> Arg(path, None), file_sizes |-> Arg(file_sizes, FALSE),
              timeout |-> Arg(timeout, FilesTimeout)])
    /\ Await(Request(handles[h], "GET",
                     [url |-> Url("files", handles[h].server_id),
                      params |-> [hide_default_files |-> Arg(hide_default, FALSE),
                                  path |-> Arg(path, None),
                                  with_filesizes |-> Arg(file_sizes, FALSE)],
                      timeout |-> Arg(timeout, FilesTimeout)]))

backups(h, timeout) ==
    /\ Begin([op |-> "backups", self |-> h, timeout |-> Arg(timeout, BackupsTimeout)])
    /\ Await(Request(handles[h], "GET",
                     [url |-> Url("backups", handles[h].server_id),
                      timeout |-> Arg(timeout, BackupsTimeout)]))

metrics(h) ==
    /\ Begin([op |-> "metrics", self |-> h])
    /\ Await(Request(handles[h], "GET", [url |-> Url("metrics", handles[h].server_id)]))

(* ------------------- the awaited dispatcher call ends ------------------ *)

\* No handler has a try/except around its await: what the dispatcher raises leaves
\* the coroutine as it is, and the statements after the await do not run.
PropagateSwallowed(exception) ==
    /\ pc' = "returned"
    /\ error' = NoError
    /\ result' = Value(None)
    /\ UNCHANGED <<handles, ctor, frame, data, yielded>>
Propagate(exception) ==
    /\ pc' = "raised"
    /\ error' = exception
    /\ UNCHANGED <<handles, ctor, frame, data, result, yielded>>

\* The dispatcher answers the pending call with a remote error or a timeout error.
dispatcher_raises(exception) ==
    /\ pc = "awaiting"
    /\ log' = Answered(exception)
    /\ Propagate(exception)

\* The coroutines whose body is the one awaited call: they return None.
ReturnsNone ==
    {"delete", "update", "console_send", "sync", "ftp_reset", "stop", "start", "reset"}

return_none ==
    /\ pc = "awaiting"
    /\ frame.op \in ReturnsNone
    /\ log' = Answered("ok")
    /\ pc' = "returned"
    /\ result' = Value(None)
    /\ UNCHANGED <<handles, ctor, frame, data, error, yielded>>

get_return(body) ==
    /\ pc = "awaiting"
    /\ frame.op = "get"
    /\ log' = Answered("ok")
    /\ data' = body
    /\ pc' = "returned"
    /\ result' = Value(ServerModel(body))
    /\ UNCHANGED <<handles, ctor, frame, error, yielded>>

metrics_return(body) ==
    /\ pc = "awaiting"
    /\ frame.op = "metrics"
    /\ log' = Answered("ok")
    /\ data' = body
    /\ pc' = "returned"
    /\ result' = Value(MetricsModel(body))
    /\ UNCHANGED <<handles, ctor, frame, error, yielded>>

console_retrive_return(body) ==
    /\ pc = "awaiting"
    /\ frame.op = "console_retrive"
    /\ log' = Answered("ok")
    /\ data' = body
    /\ pc' = "returned"
    /\ result' = Value(body.lines)
    /\ UNCHANGED <<handles, ctor, frame, error, yielded>>

\* await self.sync() has returned: the duplicate POST follows.
duplicate_after_sync ==
    /\ pc = "awaiting"
    /\ frame.op = "duplicate"
    /\ Last.kwargs.url = Url("sync", Self.server_id)
    /\ log' = Append(Answered("ok"),
                     Request(Self, "POST",
                             [url |-> Url("duplicate", Self.server_id),
                              read_json |-> TRUE,
                              timeout |-> frame.timeout]))
    /\ UNCHANGED <<handles, ctor, pc, frame, data, result, error, yielded>>

\* The duplicate POST has returned: the model and a handle on data["id"], which the
\* caller keeps while it has room for one.
duplicate_return(body) ==
    /\ pc = "awaiting"
    /\ frame.op = "duplicate"
    /\ Last.kwargs.url = Url("duplicate", Self.server_id)
    /\ log' = Answered("ok")
    /\ data' = body
    /\ pc' = "returned"
    /\ result' = Value(<<ServerModel(body), ServerAwaiting(Self.context, body.id)>>)
    /\ IF Len(handles) < MaxHandles
       THEN /\ handles' = Append(handles, ServerAwaiting(Self.context, body.id))
            /\ ctor' = Append(ctor, ServerAwaiting(Self.context, body.id))
       ELSE UNCHANGED <<handles, ctor>>
    /\ UNCHANGED <<frame, error, yielded>>

(* ---------------------------- the listings ---------------------------- *)

\* yield FileModel(file_), self.file(file_["path"])
files_yield(self, file_) == <<FileModel(file_), file(self, file_.path)>>
\* yield BackupModel(backup), self.backup(backup["name"])
backups_yield(self, backup_) == <<BackupModel(backup_), backup(self, backup_.name)>>

\* The GET of a listing has returned the whole array: the generator runs to its
\* first yield, or ends (StopAsyncIteration) when the array is empty.
files_resume(items) ==
    /\ pc = "awaiting"
    /\ frame.op = "files"
    /\ log' = Answered("ok")
    /\ data' = items
    /\ IF Len(items) = 0
       THEN /\ pc' = "returned"
            /\ yielded' = <<>>
       ELSE /\ pc' = "suspended"
            /\ yielded' = <<files_yield(Self, items[1])>>
    /\ UNCHANGED <<handles, ctor, frame, result, error>>

backups_resume(items) ==
    /\ pc = "awaiting"
    /\ frame.op = "backups"
    /\ log' = Answered("ok")
    /\ data' = items
    /\ IF Len(items) = 0
       THEN /\ pc' = "returned"
            /\ yielded' = <<>>
       ELSE /\ pc' = "suspended"
            /\ yielded' = <<backups_yield(Self, items[1])>>
    /\ UNCHANGED <<handles, ctor, frame, result, error>>

\* The caller asks the suspended generator for its next element: the for loop
\* yields the next item of data, or ends.
files_next_refetch ==
    /\ pc = "suspended"
    /\ frame.op = "files"
    /\ IF Len(yielded) < Len(data)
       THEN /\ yielded' = Append(yielded, files_yield(Self, data[Len(yielded) + 1]))
            /\ log' = Append(log, [Request(Self, "GET",
                                           [url |-> Url("files", Self.server_id)])
                                   EXCEPT !.outcome = "ok"])
            /\ pc' = "suspended"
       ELSE /\ pc' = "returned"
            /\ UNCHANGED <<yielded, log>>
    /\ UNCHANGED <<handles, ctor, frame, data, result, error>>
files_next ==
    /\ pc = "suspended"
    /\ frame.op = "files"
    /\ IF Len(yielded) < Len(data)
       THEN /\ yielded' = Append(yielded, files_yield(Self, data[Len(yielded) + 1]))
            /\ pc' = "suspended"
       ELSE /\ pc' = "returned"
            /\ UNCHANGED yielded
    /\ UNCHANGED <<handles, ctor, frame, log, data, result, error>>

backups_next ==
    /\ pc = "suspended"
    /\ frame.op = "backups"
    /\ IF Len(yielded) < Len(data)
       THEN /\ yielded' = Append(yielded, backups_yield(Self, data[Len(yielded) + 1]))
            /\ pc' = "suspended"
       ELSE /\ pc' = "returned"
            /\ UNCHANGED yielded
    /\ UNCHANGED <<handles, ctor, frame, log, data, result, error>>

(* ------------------------------- Next --------------------------------- *)

Next ==
    \/ \E h \in 1..Len(handles), timeout \in TimeoutArgs : delete(h, timeout)
    \/ \E h \in 1..Len(handles) : get(h)
    \/ \E h \in 1..Len(handles), settings \in Payloads : update(h, settings)
    \/ \E h \in 1..Len(handles), line \in ConsoleLines : console_send(h, line)
    \/ \E h \in 1..Len(handles), lines \in LinesArgs : console_retrive(h, lines)
    \/ \E h \in 1..Len(handles) : sync(h)
    \/ \E h \in 1..Len(handles), do_sync \in FlagArgs, timeout \in TimeoutArgs :
          duplicate(h, do_sync, timeout)
    \/ \E h \in 1..Len(handles) : ftp_reset(h)
    \/ \E h \in 1..Len(handles), timeout \in TimeoutArgs : stop(h, timeout)
    \/ \E h \in 1..Len(handles), timeout \in TimeoutArgs : start(h, timeout)
    \/ \E h \in 1..Len(handles), timeout \in TimeoutArgs : reset(h, timeout)
    \/ \E h \in 1..Len(handles), a \in FilesArgs, timeout \in TimeoutArgs :
          files(h, a.hide_default, a.path, a.file_sizes, timeout)
    \/ \E h \in 1..Len(handles), timeout \in TimeoutArgs : backups(h, timeout)
    \/ \E h \in 1..Len(handles) : metrics(h)
    \/ \E exception \in DispatcherErrors : dispatcher_raises(exception)
    \/ return_none
    \/ \E body \in ServerBodies : get_return(body)
    \/ \E body \in MetricsBodies : metrics_return(body)
    \/ \E body \in ConsoleBodies : console_retrive_return(body)
    \/ duplicate_after_sync
    \/ \E body \in ServerBodies : duplicate_return(body)
    \/ \E items \in SeqsUpTo(FileItems, MaxItems) : files_resume(items)
    \/ \E items \in SeqsUpTo(BackupItems, MaxItems) : backups_resume(items)
    \/ files_next
    \/ backups_next

Spec == Init /\ [][Next]_vars

(* ------------------------------ claims -------------------------------- *)

Issuer == ctor[frame.self]          \* the handle of the invocation, as constructed
Route(i) == log[i].kwargs.url[1]
Listings == {"files", "backups"}

\* C1: console_retrive with lines outside [1, 100000] raises InvalidConsoleLine
\* and hands nothing to the dispatcher, before or after raising.
C1_InvalidLinesNoRequest ==
    (frame.op = "console_retrive" /\ (frame.lines < 1 \/ frame.lines > 100000))
        => /\ pc = "raised"
           /\ error = "InvalidConsoleLine"
           /\ Len(log) = 0

C1_Witness ==
    /\ frame.op = "console_retrive"
    /\ frame.lines = 100001
    /\ pc = "raised"
    /\ error = "InvalidConsoleLine"

\* C2: console_retrive with lines inside [1, 100000] issues exactly one request, a
\* GET to the handle's console URL whose params carry max_lines = lines unchanged.
C2_ValidLinesOneGet ==
    (frame.op = "console_retrive" /\ frame.lines >= 1 /\ frame.lines <= 100000)
        => /\ Len(log) = 1
           /\ log[1].verb = "GET"
           /\ log[1].kwargs.url = Url("console", Issuer.server_id)
           /\ log[1].kwargs.params = [max_lines |-> frame.lines]
           /\ error # "InvalidConsoleLine"

C2_Witness ==
    /\ frame.op = "console_retrive"
    /\ frame.lines = 100000
    /\ pc = "returned"
    /\ log[1].kwargs.params.max_lines = 100000

\* C3: duplicate(sync=True) issues the sync POST first and the duplicate POST only
\* once the sync call has returned; duplicate(sync=False) issues the duplicate
\* POST alone and no sync call.
C3_SyncBeforeDuplicate ==
    frame.op = "duplicate" =>
        IF frame.sync
        THEN /\ Len(log) \in {1, 2}
             /\ log[1].verb = "POST"
             /\ log[1].kwargs.url = Url("sync", Issuer.server_id)
             /\ Len(log) = 2 => /\ log[1].outcome = "ok"
                                /\ log[2].verb = "POST"
                                /\ log[2].kwargs.url = Url("duplicate", Issuer.server_id)
             /\ pc = "returned" => Len(log) = 2
        ELSE /\ Len(log) = 1
             /\ log[1].verb = "POST"
             /\ log[1].kwargs.url = Url("duplicate", Issuer.server_id)

C3_Witness ==
    /\ frame.op = "duplicate"
    /\ frame.sync
    /\ pc = "returned"
    /\ Len(log) = 2

C5_NoSuccessBeforeError ==
    pc = "raised" => \A i \in 1..Len(log) : log[i].outcome # "ok"

\* C5, amended: an operation that ends in an error has caused no successful request,
\* but for duplicate(sync=True) whose duplicate POST fails: its sync POST, the one
\* request before the failed one, has succeeded.
C5_OnlyDuplicateSyncIsPartial ==
    pc = "raised" =>
        \A i \in 1..Len(log) :
            log[i].outcome = "ok" =>
                /\ frame.op = "duplicate"
                /\ frame.sync
                /\ i = 1
                /\ Len(log) = 2
                /\ Route(1) = "sync"
                /\ Route(2) = "duplicate"

C5_Witness ==
    /\ pc = "raised"
    /\ frame.op = "duplicate"
    /\ frame.sync
    /\ Len(log) = 2
    /\ log[1].outcome = "ok"
    /\ log[2].outcome = error

\* C6 as stated: every operation takes a timeout, and every request the operation
\* issues is given that timeout.
C6_EveryRequestTimed ==
    frame.op # "none" =>
        /\ "timeout" \in DOMAIN frame
        /\ \A i \in 1..Len(log) :
              /\ "timeout" \in DOMAIN log[i].kwargs
              /\ log[i].kwargs.timeout = frame.timeout

TimedOps == {"delete", "duplicate", "stop", "start", "reset", "files", "backups"}

\* C6, amended: delete, duplicate, stop, start, reset (default 60), files and
\* backups (default 30) take a timeout and pass it to the one request of their own
\* body; get, update, console_send, console_retrive, sync, ftp_reset and metrics
\* take none and pass none, and the sync request inside duplicate(sync=True,
\* timeout=t) is issued without a timeout.
C6_TimeoutWhereTaken ==
    frame.op # "none" =>
        /\ "timeout" \in DOMAIN frame <=> frame.op \in TimedOps
        /\ frame.op \in TimedOps =>
              frame.timeout \in {CallerTimeout, IF frame.op \in Listings THEN 30 ELSE 60}
        /\ \A i \in 1..Len(log) :
              IF frame.op \in TimedOps /\ Route(i) # "sync"
              THEN /\ "timeout" \in DOMAIN log[i].kwargs
                   /\ log[i].kwargs.timeout = frame.timeout
              ELSE "timeout" \notin DOMAIN log[i].kwargs

C6_Witness ==
    /\ frame.op = "duplicate"
    /\ frame.sync
    /\ frame.timeout = CallerTimeout
    /\ Len(log) = 2
    /\ "timeout" \notin DOMAIN log[1].kwargs
    /\ log[2].kwargs.timeout = CallerTimeout

\* C7: an iteration of files or backups issues exactly one GET, answered before
\* the first pair is yielded; yielding further pairs issues nothing; and a new call
\* of files or backups issues its own GET and starts from no pairs.
C7_Invariant ==
    frame.op \in Listings =>
        /\ Len(log) = 1
        /\ log[1].verb = "GET"
        /\ log[1].kwargs.url = Url(frame.op, Issuer.server_id)
        /\ Len(yielded) > 0 => log[1].outcome = "ok"

C7_Step ==
    /\ (frame.op \in Listings /\ pc = "suspended" /\ frame'.op \in Listings
            /\ pc' \in {"suspended", "returned"})
          => log' = log
    /\ (frame'.op \in Listings /\ pc # "awaiting" /\ pc' = "awaiting")
          => /\ Len(log') = 1
             /\ log'[1].outcome = "pending"
             /\ Len(yielded') = 0

C7_OneGetPerIteration == []C7_Invariant /\ [][C7_Step]_vars

C7_Witness ==
    /\ frame.op = "files"
    /\ pc = "returned"
    /\ Len(yielded) = 2
    /\ Len(log) = 1

Settled == pc \in {"suspended", "returned", "raised"}

\* C8 as stated: every invocation issues exactly one dispatcher request.
C8_ExactlyOneRequest ==
    Settled => Len(log) = 1

\* The first dispatcher call of each method: verb and route.
FirstCall ==
    [ delete |-> <<"DELETE", "delete">>, get |-> <<"GET", "get">>,
      update |-> <<"PUT", "update">>, console_send |-> <<"POST", "console">>,
      console_retrive |-> <<"GET", "console">>, sync |-> <<"POST", "sync">>,
      duplicate |-> <<"POST", "duplicate">>, ftp_reset |-> <<"POST", "ftp">>,
      stop |-> <<"POST", "stop">>, start |-> <<"POST", "start">>,
      reset |-> <<"POST", "reset">>, files |-> <<"GET", "files">>,
      backups |-> <<"GET", "backups">>, metrics |-> <<"GET", "metrics">> ]

\* C8, amended: whatever was invoked before, an invocation issues the requests its
\* method and arguments fix, each answered before the next is issued: exactly one,
\* except console_retrive with lines outside [1, 100000] (none) and
\* duplicate(sync=True) (the sync POST and, once it has returned, the duplicate
\* POST).
C8_RequestsFixedByCall ==
    frame.op # "none" =>
        /\ \A i \in 1..Len(log) - 1 : log[i].outcome = "ok"
        /\ Len(log) >= 1 => (Last.outcome = "pending" <=> pc = "awaiting")
        /\ Len(log) >= 1 =>
              <<log[1].verb, Route(1)>> =
                  IF frame.op = "duplicate" /\ frame.sync
                  THEN <<"POST", "sync">>
                  ELSE FirstCall[frame.op]
        /\ Settled =>
              Len(log) =
                  IF frame.op = "console_retrive"
                        /\ (frame.lines < 1 \/ frame.lines > 100000)
                  THEN 0
                  ELSE IF frame.op = "duplicate" /\ frame.sync
                          /\ log[1].outcome = "ok"
                  THEN 2
                  ELSE 1

C8_Witness ==
    /\ frame.op = "duplicate"
    /\ frame.sync
    /\ pc = "returned"
    /\ Len(log) = 2
    /\ Len(handles) = MaxHandles

\* C9: an error the dispatcher raises leaves the operation as that same error: the
\* failed request is the last one issued (no retry), nothing is returned, a listing
\* has yielded no pair, and no request that failed is passed over.
C9_DispatcherErrorPropagates ==
    /\ \A i \in 1..Len(log) :
          log[i].outcome \in DispatcherErrors =>
              /\ i = Len(log)
              /\ pc = "raised"
              /\ error = log[i].outcome
    /\ (pc = "raised" /\ error \in DispatcherErrors) =>
          /\ Len(log) >= 1
          /\ Last.outcome = error
          /\ result.kind = "none"
          /\ Len(yielded) = 0

C9_Witness ==
    /\ pc = "raised"
    /\ frame.op = "files"
    /\ error = "TimeoutError"
    /\ Last.outcome = "TimeoutError"

\* C10: a handle keeps the server id and dispatcher it was constructed with; every
\* request it issues is addressed to that id on that dispatcher; the handles it
\* yields carry both; duplicate returns a handle on the response's id; and the
\* body of update's PUT has server_id equal to the handle's id, the other options
\* as given, whatever the settings payload holds under server_id.
C10_HandleIdFixed ==
    /\ handles = ctor
    /\ \A i \in 1..Len(log) :
          /\ log[i].kwargs.url[2] = Issuer.server_id
          /\ log[i].context = Issuer.context
    /\ frame.op = "update" =>
          \A i \in 1..Len(log) :
              /\ DOMAIN log[i].kwargs.data = DOMAIN frame.settings \cup {"server_id"}
              /\ log[i].kwargs.data.server_id = Issuer.server_id
              /\ \A k \in DOMAIN frame.settings \ {"server_id"} :
                    log[i].kwargs.data[k] = frame.settings[k]
    /\ frame.op \in Listings =>
          \A i \in 1..Len(yielded) :
              /\ yielded[i][2].server_id = Issuer.server_id
              /\ yielded[i][2].context = Issuer.context
    /\ (frame.op = "duplicate" /\ pc = "returned") =>
          result.value[2] = [context |-> Issuer.context, server_id |-> data.id]

C10_Witness ==
    /\ frame.op = "update"
    /\ pc = "returned"
    /\ "server_id" \in DOMAIN frame.settings
    /\ frame.settings.server_id # Issuer.server_id
    /\ frame.self = 2
    /\ handles[2].server_id # handles[1].server_id

====
